---- MODULE Spec2Model ----
(***************************************************************************)
(* Model of examples/optimize_type.py: optimize_type(model, c, lr,         *)
(* nb_iter, eps, show_examples), the projected gradient loop over the      *)
(* parameters of a character type.                                         *)
(*                                                                         *)
(* Parameter values and bounds are floats in the program.  They are        *)
(* modelled as integers counting half units (3 stands for 1.5, 2 for 1.0), *)
(* one scalar element per parameter; NaN is outside the modelled domain.   *)
(* The scoring model is an argument of the function: it is drawn from      *)
(* three linear scores (constant, sum of the parameters, minus the sum),   *)
(* for which one Adam step moves every element by lr times the sign of     *)
(* the gradient.                                                           *)
(***************************************************************************)
EXTENDS Integers, Sequences, FiniteSets

\* ---- bounds of the model ------------------------------------------------
MaxNbIter == 15          \* nb_iter argument ranges over 0..MaxNbIter
MaxBelow == 1            \* initial parameter values range over -MaxBelow..MaxVal
MaxVal == 3
MaxLr == 1               \* lr argument ranges over 1..MaxLr half units per step
ConstScore == 7          \* the score returned by the constant model

\* ---- program constants --------------------------------------------------
GridRows == 10           \* plt.subplots(10, 4, ...)
Checkpoints == 10        \* interval = int(nb_iter / 10)

\* an absent bound is None; a bound b is the one-element tensor <<b>>
None == <<>>

\* ---- inputs -------------------------------------------------------------
Models == {"const", "sum", "negsum"}

LowerBounds == {None, <<0>>, <<2>>}
UpperBounds == {None, <<1>>, <<2>>}
Vals == (0 - MaxBelow)..MaxVal

\* one parameter of a Type: initial value, lower bound, upper bound
ParamCfgs == [v : Vals, lb : LowerBounds, ub : UpperBounds]
SecondCfgs == {[v |-> 3, lb |-> None, ub |-> None], [v |-> 3, lb |-> <<0>>, ub |-> <<2>>]}
Types == {<<p>> : p \in ParamCfgs} \cup {<<p, q>> : p \in ParamCfgs, q \in SecondCfgs}

VARIABLES
    arg_nb_iter,     \* the nb_iter argument as passed by the caller
    model,           \* the model argument (its score function)
    lr,              \* the lr argument, in half units per step
    show_examples,   \* the show_examples argument
    c0,              \* parameter values of c when the call starts
    nb_iter,         \* local nb_iter (rebound by the rounding)
    params,          \* values of c.parameters()
    lbs,             \* c.lbs(eps): None or a bound, per parameter
    ubs,             \* c.ubs(eps)
    score_list,
    opt_step,        \* Adam's step counter
    interval,
    idx,
    printed,         \* iteration indices printed by the progress message
    axes,            \* rows of the figure grid drawn so far, in order
    entering,        \* parameter values at the start of each iteration
    ref_params,      \* the same call made with show_examples=False
    ref_score_list,
    pc

vars == <<arg_nb_iter, model, lr, show_examples, c0, nb_iter, params, lbs, ubs,
          score_list, opt_step, interval, idx, printed, axes, entering,
          ref_params, ref_score_list, pc>>

args == <<arg_nb_iter, model, lr, show_examples, c0, lbs, ubs>>

\* ---- helpers ------------------------------------------------------------
Max(a, b) == IF a >= b THEN a ELSE b
Min(a, b) == IF a <= b THEN a ELSE b

RECURSIVE SumSeq(_)
SumSeq(s) == IF s = <<>> THEN 0 ELSE Head(s) + SumSeq(Tail(s))

\* np.round(n, -1) on an integer: n / 10.0, rint (ties to even), * 10
np_round_floor(n) == (n \div 10) * 10
np_round_ceil(n) == ((n + 9) \div 10) * 10
np_round_none(n) == n
np_round(n) ==
    LET q == n \div 10
        r == n % 10
    IN  IF r < 5 THEN 10 * q
        ELSE IF r > 5 THEN 10 * (q + 1)
        ELSE IF q % 2 = 0 THEN 10 * q ELSE 10 * (q + 1)

\* idx in range(n)
in_range_incl(i, n) == i <= n
in_range(i, n) == i < n

\* model.score_type(c) for the three models
score_type(m, ps) ==
    CASE m = "const"  -> ConstScore
      [] m = "sum"    -> SumSeq(ps)
      [] m = "negsum" -> 0 - SumSeq(ps)

\* d score / d element, the same for every element
grad(m) ==
    CASE m = "const"  -> 0
      [] m = "sum"    -> 1
      [] m = "negsum" -> 0 - 1

\* loss = -score; loss.backward(); optimizer.step(): Adam on a constant
\* gradient g of the loss moves each element by -lr * sign(g)
adam_step_decay(ps, m, rate) == [i \in DOMAIN ps |-> ps[i] + rate * grad(m) - 1]
adam_step(ps, m, rate) == [i \in DOMAIN ps |-> ps[i] + rate * grad(m)]

\* score_list.append(x)
append_front(sl, x) == <<x>> \o sl
append(sl, x) == Append(sl, x)

\* lines 78-81 on one element
clamp_upper_first(x, lb, ub) ==
    LET y == IF ub # None THEN Min(x, ub[1]) ELSE x
    IN  IF lb # None THEN Max(y, lb[1]) ELSE y
clamp_swapped(x, lb, ub) ==
    LET y == IF lb # None THEN Min(x, lb[1]) ELSE x
    IN  IF ub # None THEN Max(y, ub[1]) ELSE y
clamp_lower_only(x, lb, ub) == IF lb # None THEN Max(x, lb[1]) ELSE x
clamp(x, lb, ub) ==
    LET y == IF lb # None THEN Max(x, lb[1]) ELSE x
    IN  IF ub # None THEN Min(y, ub[1]) ELSE y

\* for param, lb, ub in zip(params, lbs, ubs): ...
project(ps, lo, hi) == [i \in DOMAIN ps |-> clamp(ps[i], lo[i], hi[i])]

\* ---- initial states: the arguments of one call --------------------------
Init ==
    /\ arg_nb_iter \in 0..MaxNbIter
    /\ model \in Models
    /\ lr \in 1..MaxLr
    /\ show_examples \in BOOLEAN
    /\ \E c \in Types :
          /\ c0 = [i \in DOMAIN c |-> c[i].v]
          /\ lbs = [i \in DOMAIN c |-> c[i].lb]
          /\ ubs = [i \in DOMAIN c |-> c[i].ub]
    /\ nb_iter = arg_nb_iter
    /\ params = c0
    /\ ref_params = c0
    /\ score_list = <<>>
    /\ ref_score_list = <<>>
    /\ opt_step = 0
    /\ interval = 0
    /\ idx = 0
    /\ printed = <<>>
    /\ axes = <<>>
    /\ entering = <<>>
    /\ pc = "start"

\* lines 36-47: rounding, set-up, interval
Start ==
    /\ pc = "start"
    /\ nb_iter' = np_round(nb_iter)
    /\ interval' = nb_iter' \div Checkpoints
    /\ pc' = "loop"
    /\ UNCHANGED <<args, params, score_list, opt_step, idx, printed, axes,
                   entering, ref_params, ref_score_list>>

\* lines 48-49: next idx of the range, then the test idx % interval == 0
LoopHead ==
    /\ pc = "loop"
    /\ in_range(idx, nb_iter)
    /\ entering' = Append(entering, params)
    /\ pc' = IF interval = 0 THEN "raised"        \* ZeroDivisionError
             ELSE IF idx % interval = 0 THEN "checkpoint"
             ELSE "grad"
    /\ UNCHANGED <<args, nb_iter, params, score_list, opt_step, interval, idx,
                   printed, axes, ref_params, ref_score_list>>

\* lines 50-65: progress message and, with show_examples, one grid row
Checkpoint_touches_type ==
    /\ pc = "checkpoint"
    /\ printed' = Append(printed, idx)
    /\ IF show_examples /\ (idx \div interval) \notin 0..(GridRows - 1)
       THEN /\ pc' = "raised"
            /\ axes' = axes
            /\ params' = params
       ELSE /\ pc' = "grad"
            /\ axes' = IF show_examples THEN Append(axes, idx \div interval)
                       ELSE axes
            /\ params' = IF show_examples
                          THEN [i \in DOMAIN params |-> params[i] + 1]
                          ELSE params
    /\ UNCHANGED <<args, nb_iter, score_list, opt_step, interval, idx,
                   entering, ref_params, ref_score_list>>
Checkpoint ==
    /\ pc = "checkpoint"
    /\ printed' = Append(printed, idx)
    /\ IF show_examples /\ (idx \div interval) \notin 0..(GridRows - 1)
       THEN /\ pc' = "raised"                      \* IndexError
            /\ axes' = axes
       ELSE /\ pc' = "grad"
            /\ axes' = IF show_examples THEN Append(axes, idx \div interval)
                       ELSE axes
    /\ UNCHANGED <<args, nb_iter, params, score_list, opt_step, interval, idx,
                   entering, ref_params, ref_score_list>>

\* lines 66-74: zero_grad, score, append, backward, optimizer step
GradStep ==
    /\ pc = "grad"
    /\ score_list' = append(score_list, score_type(model, params))
    /\ ref_score_list' = append(ref_score_list, score_type(model, ref_params))
    /\ params' = adam_step(params, model, lr)
    /\ ref_params' = adam_step(ref_params, model, lr)
    /\ opt_step' = opt_step + 1
    /\ pc' = "project"
    /\ UNCHANGED <<args, nb_iter, interval, idx, printed, axes, entering>>

\* lines 75-81: projection, then the loop moves to the next idx
Project ==
    /\ pc = "project"
    /\ params' = project(params, lbs, ubs)
    /\ ref_params' = project(ref_params, lbs, ubs)
    /\ idx' = idx + 1
    /\ pc' = "loop"
    /\ UNCHANGED <<args, nb_iter, score_list, opt_step, interval, printed,
                   axes, entering, ref_score_list>>

\* line 83: range exhausted, return score_list
Return ==
    /\ pc = "loop"
    /\ ~ in_range(idx, nb_iter)
    /\ pc' = "done"
    /\ UNCHANGED <<args, nb_iter, params, score_list, opt_step, interval, idx,
                   printed, axes, entering, ref_params, ref_score_list>>

Next == Start \/ LoopHead \/ Checkpoint \/ GradStep \/ Project \/ Return

Spec == Init /\ [][Next]_vars

TypeOK ==
    /\ pc \in {"start", "loop", "checkpoint", "grad", "project", "done", "raised"}
    /\ Len(score_list) <= nb_iter
    /\ idx <= nb_iter

\* ---- properties ---------------------------------------------------------
Abs(n) == IF n >= 0 THEN n ELSE 0 - n

\* the state reached right after a projection step
AfterProjection == pc = "loop" /\ idx > 0

HasLower(i) == lbs[i] # None
HasUpper(i) == ubs[i] # None
Inverted(i) == HasLower(i) /\ HasUpper(i) /\ lbs[i][1] > ubs[i][1]

\* C1: the call never raises, and the returned trajectory has as many
\* entries as the nb_iter argument rounded to the nearest multiple of ten:
\* a multiple of ten at distance at most 5 from the argument.
C1_TrajectoryLength ==
    /\ pc # "raised"
    /\ pc = "done" =>
          /\ Len(score_list) % 10 = 0
          /\ Abs(Len(score_list) - arg_nb_iter) <= 5

C1_Witness ==
    pc = "done" /\ Len(score_list) > 0 /\ Len(score_list) # arg_nb_iter

\* C2 as stated: right after every projection each element is >= its lower
\* bound when it has one and <= its upper bound when it has one.
C2_WithinBothBounds ==
    AfterProjection =>
        \A i \in DOMAIN params :
            /\ HasLower(i) => params[i] >= lbs[i][1]
            /\ HasUpper(i) => params[i] <= ubs[i][1]

\* C2 amended: right after every projection each element is <= its upper
\* bound when it has one, and >= its lower bound when it has one and the
\* bound pair is not inverted (no upper bound, or lower <= upper).
C2_WithinBoundsUnlessInverted ==
    AfterProjection =>
        \A i \in DOMAIN params :
            /\ HasUpper(i) => params[i] <= ubs[i][1]
            /\ (HasLower(i) /\ ~ Inverted(i)) => params[i] >= lbs[i][1]

C2_Witness ==
    /\ AfterProjection
    /\ model = "sum"
    /\ \E i \in DOMAIN params :
          /\ HasLower(i) /\ HasUpper(i) /\ ~ Inverted(i)
          /\ entering[idx][i] + lr > ubs[i][1]
          /\ params[i] = ubs[i][1]

\* C3: when nb_iter rounds to zero the loop body never runs: no iteration
\* is entered, no modulo by the zero interval is evaluated (nothing is
\* raised), nothing is printed or drawn, and the trajectory stays empty up
\* to the return.
C3_ZeroIterations ==
    (pc # "start" /\ nb_iter = 0) =>
        /\ pc \in {"loop", "done"}
        /\ idx = 0
        /\ entering = <<>>
        /\ printed = <<>>
        /\ axes = <<>>
        /\ score_list = <<>>

C3_Witness ==
    pc = "done" /\ nb_iter = 0 /\ interval = 0 /\ arg_nb_iter > 0
        /\ score_list = <<>>

\* C4 as stated: nb_iter=7 rounds to 0, the trajectory is empty and the
\* parameters keep their initial values.
C4_SevenRoundsToZero ==
    (arg_nb_iter = 7 /\ pc = "done") =>
        /\ nb_iter = 0
        /\ score_list = <<>>
        /\ params = c0

\* C4 amended: nb_iter=7 rounds to 10 and the trajectory has 10 entries; it
\* is nb_iter=4 that rounds to 0, returns an empty trajectory and leaves
\* every parameter at its initial value.
C4_SevenRoundsToTen ==
    /\ (arg_nb_iter = 7 /\ pc # "start") => nb_iter = 10
    /\ (arg_nb_iter = 7 /\ pc = "done") => Len(score_list) = 10
    /\ (arg_nb_iter = 4 /\ pc # "start") => (nb_iter = 0 /\ params = c0)
    /\ (arg_nb_iter = 4 /\ pc = "done") => score_list = <<>>

C4_Witness ==
    arg_nb_iter = 7 /\ pc = "done" /\ Len(score_list) = 10

\* C5: the checkpoint block changes neither the parameters, the bounds, the
\* optimizer state nor the trajectory, and at every step the call has the
\* same parameter values and trajectory as the same call made with
\* show_examples=False.
C5_DiagnosticsDoNotInterfere ==
    [][ /\ pc = "checkpoint" =>
              UNCHANGED <<params, lbs, ubs, opt_step, score_list>>
        /\ params' = ref_params'
        /\ score_list' = ref_score_list' ]_vars

C5_Witness ==
    /\ show_examples
    /\ pc = "done"
    /\ Len(axes) = GridRows
    /\ params # c0
    /\ params = ref_params
    /\ score_list = ref_score_list

\* C6: with N the rounded count, the k-th progress message and the k-th
\* drawn row belong to iteration (k-1) * N/10 and to row k-1, the message
\* of a checkpoint iteration is out before that iteration's gradient step,
\* no other iteration prints, nothing is raised (no row outside the grid),
\* and a finished run with N > 0 has printed exactly ten times.
C6_TenCheckpoints ==
    /\ pc # "raised"
    /\ \A k \in 1..Len(printed) : printed[k] = (k - 1) * (nb_iter \div 10)
    /\ \A k \in 1..Len(axes) : axes[k] = k - 1 /\ axes[k] \in 0..(GridRows - 1)
    /\ \A j, k \in 1..Len(axes) : j # k => axes[j] # axes[k]
    /\ pc = "grad" =>
          /\ Len(printed) = (idx \div (nb_iter \div 10)) + 1
          /\ idx % (nb_iter \div 10) = 0 =>
                (printed[Len(printed)] = idx /\ Len(score_list) = idx)
    /\ (pc = "done" /\ nb_iter > 0) =>
          /\ Len(printed) = 10
          /\ printed[1] = 0
          /\ show_examples => Len(axes) = 10

C6_Witness ==
    /\ pc = "done"
    /\ nb_iter = 20
    /\ show_examples
    /\ printed = <<0, 2, 4, 6, 8, 10, 12, 14, 16, 18>>
    /\ axes = <<0, 1, 2, 3, 4, 5, 6, 7, 8, 9>>

\* C7: the trajectory only grows, by one entry at its end in the gradient
\* step of each iteration and never otherwise; its length follows the
\* iteration index; and entry i is the score of the parameter values that
\* entered iteration i, entry 0 being the score of the initial Type.
C7_TrajectoryOrder ==
    [][ /\ SubSeq(score_list', 1, Len(score_list)) = score_list
        /\ Len(score_list') = Len(score_list) + (IF pc = "grad" THEN 1 ELSE 0)
        /\ Len(score_list') = idx' + (IF pc' = "project" THEN 1 ELSE 0)
        /\ \A i \in 1..Len(score_list') :
              score_list'[i] = score_type(model, entering'[i])
        /\ entering' # <<>> => entering'[1] = c0 ]_vars

C7_Witness ==
    /\ pc = "done"
    /\ model = "sum"
    /\ Len(score_list) = 20
    /\ score_list[1] = score_type(model, c0)
    /\ score_list[2] # score_list[1]

\* C8: one parameter with bounds [0.0, 1.0] and initial value 1.5, the
\* constant model and nb_iter=10 (values count half units)
Scenario8 ==
    /\ c0 = <<3>>
    /\ lbs = << <<0>> >>
    /\ ubs = << <<2>> >>
    /\ model = "const"
    /\ arg_nb_iter = 10

\* C8: in that scenario the parameter is 1.0 from the first projection on,
\* through all ten iterations, and the returned trajectory has ten entries,
\* all equal to the constant score.
C8_ClampScenario ==
    Scenario8 =>
        /\ pc # "raised"
        /\ idx >= 1 => params = <<2>>
        /\ (idx = 0 /\ pc # "project") => params = <<3>>
        /\ pc = "done" =>
              /\ idx = 10
              /\ Len(score_list) = 10
              /\ \A i \in 1..10 : score_list[i] = ConstScore

C8_Witness ==
    Scenario8 /\ pc = "done" /\ params = <<2>> /\ Len(score_list) = 10

Feasible(ps) ==
    \A i \in DOMAIN ps :
        /\ HasLower(i) => ps[i] >= lbs[i][1]
        /\ HasUpper(i) => ps[i] <= ubs[i][1]

\* C9: a projection step leaves parameters that are already within their
\* bounds unchanged, leaves a parameter with neither bound unchanged, and
\* projecting its result once more changes nothing.
C9_ProjectionIdempotent ==
    [][ pc = "project" =>
          /\ Feasible(params) => params' = params
          /\ \A i \in DOMAIN params :
                (~ HasLower(i) /\ ~ HasUpper(i)) => params'[i] = params[i]
          /\ project(params', lbs, ubs) = params' ]_vars

C9_Witness ==
    /\ pc = "loop"
    /\ idx > 1
    /\ \E i \in DOMAIN params : HasLower(i) /\ HasUpper(i)
    /\ Feasible(entering[idx])
    /\ Feasible(adam_step(entering[idx], model, lr))
    /\ params = adam_step(entering[idx], model, lr)

\* C10: an element whose bound pair is inverted (lower > upper) equals the
\* upper bound after every projection, whatever its value before.
C10_InvertedBoundsGiveUpper ==
    [][ pc = "project" =>
          \A i \in DOMAIN params : Inverted(i) => params'[i] = ubs[i][1] ]_vars

C10_Witness ==
    /\ AfterProjection
    /\ \E i \in DOMAIN params :
          /\ Inverted(i)
          /\ params[i] = ubs[i][1]
          /\ params[i] < lbs[i][1]
          /\ c0[i] > lbs[i][1]
====
